---- MODULE Spec2Model ----
(***************************************************************************)
(* A model of msgq.c: a message queue over a UNIX domain datagram socket.  *)
(* Queue B is the handle under study: its receiver thread, the consumers   *)
(* calling msgq_recv / msgq_recv_wait / msgq_message_count /               *)
(* msgq_pkt_delete, and the thread that opened it and calls msgq_close.    *)
(* Queue A is the single sender whose datagrams arrive at B's socket.      *)
(***************************************************************************)
EXTENDS Integers, Sequences, FiniteSets, TLC

\* ------------------------------------------------------------------ bounds
\* Number of datagrams that arrive at B's socket in one behaviour.
MaxDgrams == 2
\* How many generated paths bind_anonymous may find taken.
MaxTries == 2

\* ------------------------------------------------------- program constants
\* UNIX_PATH_MAX: sizeof(struct sockaddr_un) - sizeof(sa_family_t).
UNIX_PATH_MAX == 108
\* offsetof(struct msgq_packet, data): "the first 8 bytes" hold the header.
HeaderSize == 8

NULL == 0
\* A byte whose value the program never set (malloc'ed or stack memory) and
\* that happens not to be zero.
Garbage == 99

Main == "main"
Receiver == "receiver"
Consumers == {"c1", "c2"}
NoOwner == "none"
Destroyed == "destroyed"

\* ----------------------------------------------------------------- strings
\* A C string is modelled as the sequence of its characters (non-zero
\* numbers). A char array is modelled by its bytes up to and including the
\* first NUL (0), the only ones a string function reads; an array that holds
\* no NUL is modelled by all its bytes.
ShortAddr == <<47, 116, 1>>
LongAddr == [i \in 1..(UNIX_PATH_MAX - 1) |-> 120]
\* The addresses queue A may be bound to.
SenderAddrs == {ShortAddr, LongAddr}

Min(a, b) == IF a < b THEN a ELSE b

\* The bytes of a char array up to and including its first NUL.
UpToNul(arr) ==
  LET nuls == {i \in 1..Len(arr) : arr[i] = 0}
  IN IF nuls = {} THEN arr
     ELSE SubSeq(arr, 1, CHOOSE i \in nuls : \A j \in nuls : i <= j)

\* strncpy(dst, src, n) into an array of `size` bytes each of which held `ub`
\* before: at most n characters are copied and, when src is shorter than n,
\* NULs are written behind them; when it is not, no NUL is written and the
\* bytes n+1..size keep their previous content.
Strncpy(src, n, size, ub) ==
  IF Len(src) < n THEN src \o <<0>>
  ELSE UpToNul(SubSeq(src, 1, n) \o [i \in 1..(size - n) |-> ub])

\* The C string a char array holds: the characters before the first NUL.
\* An array with no NUL is read past its end; the model returns the whole
\* array followed by one more unknown byte.
CStr(arr) ==
  IF arr # <<>> /\ arr[Len(arr)] = 0 THEN SubSeq(arr, 1, Len(arr) - 1)
  ELSE arr \o <<Garbage>>

\* --------------------------------------------------------------- datagrams
\* The payloads of the packets queue A sends with msgq_send.
SendPayloads == {<<>>, <<1>>, <<2, 0>>}

\* Raw datagrams written to B's address without msgq_send: one shorter than
\* the header, one whose header declares more payload than was sent, one
\* whose header declares less.
RawDatagrams ==
  { [len |-> HeaderSize - 1, size |-> 1, container |-> Garbage, data |-> <<>>],
    [len |-> HeaderSize + 1, size |-> 2, container |-> Garbage, data |-> <<1>>],
    [len |-> HeaderSize + 2, size |-> 1, container |-> NULL, data |-> <<2, 1>>] }

VARIABLES
  mpc,        \* position of the thread that called msgq_open / msgq_close
  rpc,        \* position of the receiver thread
  cpc,        \* position of each consumer thread
  call,       \* the API function each consumer is executing
  cancelreq,  \* pthread_cancel(msgq->receiver) has been requested
  mutex,      \* owner of msgq->recv_mutex (error-checking mutex)
  waiters,    \* threads parked on msgq->recv_cond
  recvq,      \* msgq->recvq: the linked nodes, head first
  recvs,      \* msgq->recvs
  fd,         \* msgq->fd: "open" or "closed"
  pkbuf,      \* msgq->pkbuf: the packet in the buffer; live until it is freed
  rlen,       \* receiver local: len returned by recvfrom
  rdg,        \* history: which arrived datagram pkbuf was last filled from
  raddr,      \* receiver local: addr.sun_path filled by recvfrom
  np,         \* receiver local: the node built by msgq_node_create
  heap,       \* every node allocated so far, by address 1..Len(heap)
  cp,         \* consumer local: the node popped by edque_pop_front
  cret,       \* consumer local: value returned by msgq_message_count
  dp,         \* msgq_close local: the node popped by the drain loop
  sock,       \* datagrams queued in the kernel for B's socket (indices in sent)
  aaddr,      \* the address queue A is bound to
  sent,       \* history: datagrams that arrived at B's socket, in order
  accepted,   \* history: nodes in the order the receiver appended them
  dequeued,   \* history: nodes in the order consumers popped them
  got,        \* history: per consumer, the nodes returned to it, in order
  snap,       \* history: per consumer, recvq and recvs when it took the lock
  atclose,    \* history: recvq when msgq_close took the lock
  lost,       \* history: datagrams dropped because an allocation failed
  failed,     \* history: an assert() of the program has failed
  open,       \* msgq_open: its position, what it has created, the filesystem
  sres        \* history: destination and result of the last msgq_send on B

vars == <<mpc, rpc, cpc, call, cancelreq, mutex, waiters, recvq, recvs, fd,
          pkbuf, rlen, rdg, raddr, np, heap, cp, cret, dp, sock, aaddr,
          sent, accepted, dequeued, got, snap, atclose, lost, failed,
          open, sres>>

rvars == <<rlen, rdg, raddr, np, pkbuf>>
cvars == <<cpc, call, cp, cret, got, snap>>
mvars == <<mpc, cancelreq, fd, dp, atclose>>
qvars == <<recvq, recvs>>
hist == <<accepted, dequeued, lost>>
net == <<sock, aaddr, sent>>
xvars == <<open, sres>>

NoSnap == [q |-> <<>>, n |-> -1]

\* --------------------------------------------------------------- msgq_open
\* What msgq_open has created so far, and the filesystem entry at the path
\* the queue binds to. fs0 is the entry before msgq_open touched the path, fs
\* the entry now: "none", "file" (not a socket), "socket" (left by an earlier
\* queue), "tmp" (the file mkstemp made), "bound" (made by this bind).
NewOpen(mode, fs0) ==
  [pc |-> "o_handle", mode |-> mode, fs0 |-> fs0, fs |-> fs0,
   handle |-> "none", buf |-> "none", mtx |-> "none", cond |-> "none",
   sockfd |-> "none", hfd |-> FALSE, bound |-> FALSE, address |-> "",
   thread |-> FALSE, ret |-> "pending", tries |-> 0]

\* msgq_open(address) on a free path, when the receiver thread has been
\* created and msgq_open is about to unlock recv_mutex and return.
OpenedHandle ==
  [NewOpen("named", "none") EXCEPT
     !.pc = "o_unlock", !.fs = "bound", !.handle = "live", !.buf = "live",
     !.mtx = "locked", !.cond = "init", !.sockfd = "open", !.hfd = TRUE,
     !.bound = TRUE, !.address = "path", !.thread = TRUE]

\* No msgq_send has been called on B.
NoSend == [dest |-> "none", ret |-> 0]

\* The state when msgq_open has created the receiver thread (line 476) and
\* still holds recv_mutex (line 292); no datagram has arrived yet.
Opened ==
  /\ mpc = "open_unlock"
  /\ rpc = "r_lock0"
  /\ cpc = [c \in Consumers |-> "idle"]
  /\ call = [c \in Consumers |-> "none"]
  /\ cancelreq = FALSE
  /\ mutex = Main
  /\ waiters = {}
  /\ recvq = <<>>
  /\ recvs = 0
  /\ fd = "open"
  /\ pkbuf = [size |-> 0, container |-> NULL, data |-> <<>>, live |-> TRUE]
  /\ rlen = 0
  /\ rdg = 0
  /\ raddr = <<>>
  /\ np = NULL
  /\ heap = <<>>
  /\ cp = [c \in Consumers |-> NULL]
  /\ cret = [c \in Consumers |-> -1]
  /\ dp = NULL
  /\ sock = <<>>
  /\ sent = <<>>
  /\ accepted = <<>>
  /\ dequeued = <<>>
  /\ got = [c \in Consumers |-> <<>>]
  /\ snap = [c \in Consumers |-> NoSnap]
  /\ atclose = <<>>
  /\ lost = {}
  /\ failed = FALSE
  /\ open = OpenedHandle
  /\ sres = NoSend

\* Queue A is an anonymous queue, bound to a short generated path.
Init == Opened /\ aaddr = ShortAddr

\* ------------------------------------------------------------------- mutex
\* pthread_mutex_lock blocks until the mutex is free.
CanLock == mutex = NoOwner
\* pthread_mutex_unlock on an error-checking mutex: a thread that does not
\* own the mutex gets EPERM and the mutex is left as it is.
Unlocked(t) == IF mutex = t THEN NoOwner ELSE mutex

\* ------------------------------------------------------------------- elist
\* The intrusive list of elist.h, as the ordered container the queue uses.
ELIST_INIT(node) == [node EXCEPT !.linked = FALSE]
edque_push_back(q, n) == Append(q, n)
edque_front(q) == IF q = <<>> THEN NULL ELSE Head(q)
edque_pop_front(q) == IF q = <<>> THEN q ELSE Tail(q)
\* The heap after node n has been linked / unlinked.
Linked(h, n) == [h EXCEPT ![n].linked = TRUE]
Unlinked(h, n) == IF n = NULL THEN h ELSE [h EXCEPT ![n] = ELIST_INIT(h[n])]

\* ----------------------------------------------------------------- packets
\* sizeof_packet(packet): the header and size payload bytes.
sizeof_packet(pkt) == HeaderSize + pkt.size

\* The datagram sendto() transmits for a packet: sizeof_packet bytes of it.
Wire(pkt) ==
  [len |-> sizeof_packet(pkt), size |-> pkt.size, container |-> pkt.container,
   data |-> SubSeq(pkt.data, 1, pkt.size)]

\* A packet built by a caller for sending (as msgq_send_string builds it).
CallerPacket(payload) ==
  [size |-> Len(payload), container |-> NULL, data |-> payload]

\* recvfrom() writes the datagram over the start of the buffer; the bytes
\* of the buffer behind it keep their previous content.
Overlay(new, old) ==
  IF Len(new) >= Len(old) THEN new
  ELSE new \o SubSeq(old, Len(new) + 1, Len(old))

Received(buf, d) ==
  [buf EXCEPT !.size = d.size, !.container = d.container,
              !.data = Overlay(d.data, buf.data)]

\* validate_packet's return value: 0, or -1 for a datagram shorter than the
\* header.
validate_ok(len) == len - HeaderSize >= 0

\* validate_packet's effect on the buffer of an accepted datagram: a declared
\* size larger than the bytes received is cut down, container is cleared.
validate_packet(pkt, len) ==
  LET estimated == len - HeaderSize
  IN [pkt EXCEPT !.size = IF estimated < pkt.size THEN estimated ELSE pkt.size,
                 !.container = NULL]

\* msgq_copy_packet: size payload bytes are copied; a NUL is added behind
\* them, outside the counted size, when the last payload byte is not NUL.
\* For size 0 the byte tested is data[-1], a byte of the header: hb.
msgq_copy_packet(pkt, hb) ==
  LET last == IF pkt.size > 0 THEN pkt.data[pkt.size] ELSE hb
      copy == SubSeq(pkt.data, 1, pkt.size)
  IN [size |-> pkt.size, container |-> pkt.container,
      data |-> IF last # 0 THEN copy \o <<0>> ELSE copy]

\* msgq_node_create: the node at address n for the packet in the buffer,
\* received from sender; ub is the content of the malloc'ed sender array.
msgq_node_create(n, sender, pkt, hb, ub) ==
  [sender |-> Strncpy(sender, UNIX_PATH_MAX - 1, UNIX_PATH_MAX, ub),
   packet |-> [msgq_copy_packet(pkt, hb) EXCEPT !.container = n],
   linked |-> FALSE,
   nfree |-> 0,
   pfree |-> 0,
   dg |-> rdg]

\* msgq_pkt_sender of the packet of node n.
msgq_pkt_sender(n) ==
  IF heap[n].packet.container = NULL THEN <<>>
  ELSE CStr(heap[heap[n].packet.container].sender)

\* free(packet); free(np) on node n.
Freed(h, n) == [h EXCEPT ![n].nfree = @ + 1, ![n].pfree = @ + 1]

\* The address recvfrom() reports in addr.sun_path: the sender's bound path
\* and, when it is shorter than the array, its NUL.
SunPath(path) ==
  IF Len(path) < UNIX_PATH_MAX THEN path \o <<0>> ELSE path

\* ------------------------------------------------------------------ sender
\* Queue A calls msgq_send(A, B's address, packet) while B's socket is bound.
ASend(payload) ==
  /\ Len(sent) < MaxDgrams
  /\ fd = "open"
  /\ sent' = Append(sent, Wire(CallerPacket(payload)))
  /\ sock' = Append(sock, Len(sent) + 1)
  /\ UNCHANGED <<mpc, rpc, cancelreq, mutex, waiters, heap, failed, aaddr>>
  /\ UNCHANGED <<rvars, cvars, mvars, qvars, hist>>
  /\ UNCHANGED xvars

\* A raw datagram is written from A's socket to B's address.
ARaw(d) ==
  /\ Len(sent) < MaxDgrams
  /\ fd = "open"
  /\ sent' = Append(sent, d)
  /\ sock' = Append(sock, Len(sent) + 1)
  /\ UNCHANGED <<mpc, rpc, cancelreq, mutex, waiters, heap, failed, aaddr>>
  /\ UNCHANGED <<rvars, cvars, mvars, qvars, hist>>
  /\ UNCHANGED xvars

\* ---------------------------------------------------------------- receiver
\* msgq_receiver, line 511: RECVQ_LOCK before reading msgq->fd.
RLock0 ==
  /\ rpc = "r_lock0"
  /\ CanLock
  /\ mutex' = Receiver
  /\ rpc' = "r_unlock0"
  /\ UNCHANGED <<waiters, heap, failed>>
  /\ UNCHANGED <<rvars, cvars, mvars, qvars, hist, net>>
  /\ UNCHANGED xvars

\* Lines 512-513: fd = msgq->fd; RECVQ_UNLOCK.
RUnlock0 ==
  /\ rpc = "r_unlock0"
  /\ mutex' = Unlocked(Receiver)
  /\ rpc' = "r_testcancel"
  /\ UNCHANGED <<waiters, heap, failed>>
  /\ UNCHANGED <<rvars, cvars, mvars, qvars, hist, net>>
  /\ UNCHANGED xvars

\* Line 516: pthread_testcancel() at the top of the loop.
RTestCancel ==
  /\ rpc = "r_testcancel"
  /\ rpc' = IF cancelreq THEN "r_cleanup" ELSE "r_recvfrom"
  /\ UNCHANGED <<mutex, waiters, heap, failed>>
  /\ UNCHANGED <<rvars, cvars, mvars, qvars, hist, net>>
  /\ UNCHANGED xvars

\* Line 520: a pending cancellation is acted upon in recvfrom().
RRecvCancel ==
  /\ rpc = "r_recvfrom"
  /\ cancelreq
  /\ rpc' = "r_cleanup"
  /\ UNCHANGED <<mutex, waiters, heap, failed>>
  /\ UNCHANGED <<rvars, cvars, mvars, qvars, hist, net>>
  /\ UNCHANGED xvars

\* Mutant of RRecvData: the nodes' packets share the receive buffer, so a
\* datagram read into it shows in every node.
RRecvDataShared ==
  /\ rpc = "r_recvfrom"
  /\ sock # <<>>
  /\ LET d == sent[Head(sock)]
     IN /\ pkbuf' = Received(pkbuf, d)
        /\ rlen' = d.len
        /\ rdg' = Head(sock)
        /\ raddr' = SunPath(aaddr)
        /\ heap' = [n \in DOMAIN heap |->
                     [heap[n] EXCEPT !.packet.size = d.size,
                                     !.packet.data = Received(pkbuf, d).data]]
  /\ sock' = Tail(sock)
  /\ rpc' = "r_validate"
  /\ UNCHANGED <<np, aaddr, sent, mutex, waiters, failed>>
  /\ UNCHANGED <<cvars, mvars, qvars, hist>>
  /\ UNCHANGED xvars

\* Lines 520-521: recvfrom() returns the oldest datagram queued on the socket.
RRecvData ==
  /\ rpc = "r_recvfrom"
  /\ sock # <<>>
  /\ LET d == sent[Head(sock)]
     IN /\ pkbuf' = Received(pkbuf, d)
        /\ rlen' = d.len
        /\ rdg' = Head(sock)
        /\ raddr' = SunPath(aaddr)
  /\ sock' = Tail(sock)
  /\ rpc' = "r_validate"
  /\ UNCHANGED <<np, aaddr, sent, mutex, waiters, heap, failed>>
  /\ UNCHANGED <<cvars, mvars, qvars, hist>>
  /\ UNCHANGED xvars

\* Lines 520-522: recvfrom() fails with EAGAIN, EWOULDBLOCK or EINTR.
RRecvTransient ==
  /\ rpc = "r_recvfrom"
  /\ rpc' = "r_eintr"
  /\ UNCHANGED <<mutex, waiters, heap, failed>>
  /\ UNCHANGED <<rvars, cvars, mvars, qvars, hist, net>>
  /\ UNCHANGED xvars

\* Lines 520-522: recvfrom() fails with another error.
RRecvFatal ==
  /\ rpc = "r_recvfrom"
  /\ rpc' = "r_efatal"
  /\ UNCHANGED <<mutex, waiters, heap, failed>>
  /\ UNCHANGED <<rvars, cvars, mvars, qvars, hist, net>>
  /\ UNCHANGED xvars

\* Mutant of RRetry: a transient error ends the loop like any other.
RRetryBreaks ==
  /\ rpc = "r_eintr"
  /\ rpc' = "r_cleanup"
  /\ UNCHANGED <<mutex, waiters, heap, failed>>
  /\ UNCHANGED <<rvars, cvars, mvars, qvars, hist, net>>
  /\ UNCHANGED xvars

\* Lines 523-525: WARN; errno is EAGAIN, EWOULDBLOCK or EINTR: continue, to
\* pthread_testcancel at the top of the loop. (A cancellation acted upon in
\* WARN() ends the thread as the one at the top of the loop does.)
RRetry ==
  /\ rpc = "r_eintr"
  /\ rpc' = "r_testcancel"
  /\ UNCHANGED <<mutex, waiters, heap, failed>>
  /\ UNCHANGED <<rvars, cvars, mvars, qvars, hist, net>>
  /\ UNCHANGED xvars

\* Lines 523-526, 559: WARN; another errno: break, and pthread_cleanup_pop(1)
\* runs the cleanup handler.
RBreak ==
  /\ rpc = "r_efatal"
  /\ rpc' = "r_cleanup"
  /\ UNCHANGED <<mutex, waiters, heap, failed>>
  /\ UNCHANGED <<rvars, cvars, mvars, qvars, hist, net>>
  /\ UNCHANGED xvars

\* Mutant of RValidate: a declared size larger than what was received is
\* left as it is.
RValidateNoTruncate ==
  /\ rpc = "r_validate"
  /\ IF validate_ok(rlen)
     THEN /\ pkbuf' = [pkbuf EXCEPT !.container = NULL]
          /\ rpc' = "r_create"
     ELSE /\ pkbuf' = pkbuf
          /\ rpc' = "r_testcancel"
  /\ UNCHANGED <<rlen, rdg, raddr, np, mutex, waiters, heap, failed>>
  /\ UNCHANGED <<cvars, mvars, qvars, hist, net>>
  /\ UNCHANGED xvars

\* Mutant of RValidate: a datagram whose declared size differs from the
\* payload bytes received is rejected.
RValidateStrict ==
  /\ rpc = "r_validate"
  /\ IF validate_ok(rlen) /\ pkbuf.size = rlen - HeaderSize
     THEN /\ pkbuf' = validate_packet(pkbuf, rlen)
          /\ rpc' = "r_create"
     ELSE /\ pkbuf' = pkbuf
          /\ rpc' = "r_testcancel"
  /\ UNCHANGED <<rlen, rdg, raddr, np, mutex, waiters, heap, failed>>
  /\ UNCHANGED <<cvars, mvars, qvars, hist, net>>
  /\ UNCHANGED xvars

\* Mutant of RValidate: validate_packet's result is not looked at.
RValidateAcceptAll ==
  /\ rpc = "r_validate"
  /\ pkbuf' = validate_packet(pkbuf, rlen)
  /\ rpc' = "r_create"
  /\ UNCHANGED <<rlen, rdg, raddr, np, mutex, waiters, heap, failed>>
  /\ UNCHANGED <<cvars, mvars, qvars, hist, net>>
  /\ UNCHANGED xvars

\* Mutant of RValidate: every datagram is taken for invalid and skipped.
RValidateRejectAll ==
  /\ rpc = "r_validate"
  /\ rpc' = "r_testcancel"
  /\ UNCHANGED <<rlen, rdg, raddr, np, pkbuf, mutex, waiters, heap, failed>>
  /\ UNCHANGED <<cvars, mvars, qvars, hist, net>>
  /\ UNCHANGED xvars

\* Lines 529-534: validate_packet on the buffer.
RValidate ==
  /\ rpc = "r_validate"
  /\ IF validate_ok(rlen)
     THEN /\ pkbuf' = validate_packet(pkbuf, rlen)
          /\ rpc' = "r_create"
     ELSE /\ pkbuf' = pkbuf
          /\ rpc' = "r_testcancel"
  /\ UNCHANGED <<rlen, rdg, raddr, np, mutex, waiters, heap, failed>>
  /\ UNCHANGED <<cvars, mvars, qvars, hist, net>>
  /\ UNCHANGED xvars

\* Line 536: msgq_node_create succeeds.
RCreate ==
  /\ rpc = "r_create"
  /\ \E hb \in {0, Garbage}, ub \in {0, Garbage} :
       /\ pkbuf.size = 0 \/ hb = 0
       /\ Len(CStr(raddr)) >= UNIX_PATH_MAX - 1 \/ ub = 0
       /\ heap' = Append(heap,
                    msgq_node_create(Len(heap) + 1, CStr(raddr), pkbuf, hb, ub))
  /\ np' = Len(heap) + 1
  /\ rpc' = "r_lock"
  /\ UNCHANGED <<rlen, rdg, raddr, pkbuf, mutex, waiters, failed>>
  /\ UNCHANGED <<cvars, mvars, qvars, hist, net>>
  /\ UNCHANGED xvars

\* Mutant of RCreateFail: when the copy of the packet cannot be allocated
\* the node already allocated is not freed.
RCreateFailLeak ==
  /\ rpc = "r_create"
  /\ heap' = Append(heap, msgq_node_create(Len(heap) + 1, CStr(raddr), pkbuf, 0, 0))
  /\ np' = NULL
  /\ lost' = lost \cup {rdg}
  /\ rpc' = "r_testcancel"
  /\ UNCHANGED <<rlen, rdg, raddr, pkbuf, mutex, waiters, failed>>
  /\ UNCHANGED <<cvars, mvars, qvars, accepted, dequeued, net>>
  /\ UNCHANGED xvars

\* Lines 536-540: malloc fails in msgq_node_create or msgq_copy_packet; the
\* datagram is dropped.
RCreateFail ==
  /\ rpc = "r_create"
  /\ np' = NULL
  /\ lost' = lost \cup {rdg}
  /\ rpc' = "r_testcancel"
  /\ UNCHANGED <<rlen, rdg, raddr, pkbuf, mutex, waiters, heap, failed>>
  /\ UNCHANGED <<cvars, mvars, qvars, accepted, dequeued, net>>
  /\ UNCHANGED xvars

\* Line 542: RECVQ_LOCK.
RLock ==
  /\ rpc = "r_lock"
  /\ CanLock
  /\ mutex' = Receiver
  /\ rpc' = "r_push"
  /\ UNCHANGED <<waiters, heap, failed>>
  /\ UNCHANGED <<rvars, cvars, mvars, qvars, hist, net>>
  /\ UNCHANGED xvars

\* Mutant of RPush: the node is linked at the head of the queue.
RPushFront ==
  /\ rpc = "r_push"
  /\ recvq' = <<np>> \o recvq
  /\ heap' = Linked(heap, np)
  /\ accepted' = Append(accepted, np)
  /\ rpc' = "r_inc"
  /\ UNCHANGED <<recvs, dequeued, lost, mutex, waiters, failed>>
  /\ UNCHANGED <<rvars, cvars, mvars, net>>
  /\ UNCHANGED xvars

\* Line 543: edque_push_back(&msgq->recvq, &np->link).
RPush ==
  /\ rpc = "r_push"
  /\ recvq' = edque_push_back(recvq, np)
  /\ heap' = Linked(heap, np)
  /\ accepted' = Append(accepted, np)
  /\ rpc' = "r_inc"
  /\ UNCHANGED <<recvs, dequeued, lost, mutex, waiters, failed>>
  /\ UNCHANGED <<rvars, cvars, mvars, net>>
  /\ UNCHANGED xvars

\* Line 544: msgq->recvs++.
RInc ==
  /\ rpc = "r_inc"
  /\ recvs' = recvs + 1
  /\ rpc' = "r_signal"
  /\ UNCHANGED <<recvq, mutex, waiters, heap, failed>>
  /\ UNCHANGED <<rvars, cvars, mvars, hist, net>>
  /\ UNCHANGED xvars

\* Lines 545, 552: in a build without NDEBUG the DEBUG() calls write to
\* stderr, which is a cancellation point: a pending cancellation can be acted
\* upon there, after recvs++ and before pthread_cond_signal.
RDebugCancel ==
  /\ rpc = "r_signal"
  /\ cancelreq
  /\ rpc' = "r_cleanup"
  /\ UNCHANGED <<mutex, waiters, heap, failed>>
  /\ UNCHANGED <<rvars, cvars, mvars, qvars, hist, net>>
  /\ UNCHANGED xvars

\* Mutant of RSignal: nobody is signalled.
RSignalMissing ==
  /\ rpc = "r_signal"
  /\ rpc' = "r_unlock"
  /\ UNCHANGED <<mutex, waiters, heap, failed>>
  /\ UNCHANGED <<rvars, cvars, mvars, qvars, hist, net>>
  /\ UNCHANGED xvars

\* Lines 547-554: msgq->broadcast is 0, so pthread_cond_signal wakes one of
\* the threads parked on recv_cond, if there is one.
RSignal ==
  /\ rpc = "r_signal"
  /\ IF waiters = {}
     THEN UNCHANGED <<waiters, cpc>>
     ELSE \E w \in waiters :
            /\ waiters' = waiters \ {w}
            /\ cpc' = [cpc EXCEPT ![w] = "rw_relock"]
  /\ rpc' = "r_unlock"
  /\ UNCHANGED <<call, cp, cret, got, snap, mutex, heap, failed>>
  /\ UNCHANGED <<rvars, mvars, qvars, hist, net>>
  /\ UNCHANGED xvars

\* Line 556: RECVQ_UNLOCK.
RUnlock ==
  /\ rpc = "r_unlock"
  /\ mutex' = Unlocked(Receiver)
  /\ rpc' = "r_testcancel"
  /\ UNCHANGED <<waiters, heap, failed>>
  /\ UNCHANGED <<rvars, cvars, mvars, qvars, hist, net>>
  /\ UNCHANGED xvars

\* Mutant of msgq_receiver_cleaner: the handler does not unlock recv_mutex.
CleanerNoUnlock ==
  /\ rpc = "r_cleanup"
  /\ rpc' = "r_done"
  /\ UNCHANGED <<mutex, waiters, heap, failed>>
  /\ UNCHANGED <<rvars, cvars, mvars, qvars, hist, net>>
  /\ UNCHANGED xvars

\* Mutant of msgq_receiver_cleaner: after the handler the loop starts again.
CleanerRestarts ==
  /\ rpc = "r_cleanup"
  /\ mutex' = Unlocked(Receiver)
  /\ rpc' = "r_lock0"
  /\ UNCHANGED <<waiters, heap, failed>>
  /\ UNCHANGED <<rvars, cvars, mvars, qvars, hist, net>>
  /\ UNCHANGED xvars

\* Mutant of msgq_receiver_cleaner: recv_mutex is not error-checking, and
\* the handler's unlock releases it whoever owns it.
CleanerForceUnlock ==
  /\ rpc = "r_cleanup"
  /\ mutex' = IF mutex = Destroyed THEN mutex ELSE NoOwner
  /\ rpc' = "r_done"
  /\ UNCHANGED <<waiters, heap, failed>>
  /\ UNCHANGED <<rvars, cvars, mvars, qvars, hist, net>>
  /\ UNCHANGED xvars

\* msgq_receiver_cleaner, lines 487-494: the cleanup handler unlocks
\* recv_mutex whether or not the receiver owns it; the thread then ends.
msgq_receiver_cleaner ==
  /\ rpc = "r_cleanup"
  /\ mutex' = Unlocked(Receiver)
  /\ rpc' = "r_done"
  /\ UNCHANGED <<waiters, heap, failed>>
  /\ UNCHANGED <<rvars, cvars, mvars, qvars, hist, net>>
  /\ UNCHANGED xvars

\* --------------------------------------------------------------- consumers
\* free(msgq) at line 355 ends the handle: a thread still inside an API
\* function would run on freed memory, and is not followed any further.
HandleLive == mpc # "closed"

\* An application thread calls fn: its first statement is RECVQ_LOCK, which
\* returns once recv_mutex is free (msgq_recv 219, msgq_recv_wait 196,
\* msgq_message_count 154).
Enter(c, fn, pc) ==
  /\ HandleLive
  /\ cpc[c] = "idle"
  /\ CanLock
  /\ mutex' = c
  /\ call' = [call EXCEPT ![c] = fn]
  /\ cpc' = [cpc EXCEPT ![c] = pc]
  /\ snap' = [snap EXCEPT ![c] = [q |-> recvq, n |-> recvs]]
  /\ UNCHANGED <<cp, cret, got, rpc, waiters, heap, failed>>
  /\ UNCHANGED <<rvars, mvars, qvars, hist, net>>
  /\ UNCHANGED xvars

CallRecv(c) == Enter(c, "msgq_recv", "rv_pop")
CallRecvWait(c) == Enter(c, "msgq_recv_wait", "rw_pop")
CallCount(c) == Enter(c, "msgq_message_count", "mc_read")

\* Mutant of RwRelock: a woken caller does not go back to `again` and takes
\* the result of the pop it made before it parked.
RwRelockNoRecheck(c) ==
  /\ HandleLive
  /\ cpc[c] = "rw_relock"
  /\ CanLock
  /\ mutex' = c
  /\ cpc' = [cpc EXCEPT ![c] = "rw_dec"]
  /\ snap' = [snap EXCEPT ![c] = [q |-> recvq, n |-> recvs]]
  /\ UNCHANGED <<call, cp, cret, got, rpc, waiters, heap, failed>>
  /\ UNCHANGED <<rvars, mvars, qvars, hist, net>>
  /\ UNCHANGED xvars

\* msgq_recv_wait, lines 201-203: a woken caller re-acquires recv_mutex
\* inside pthread_cond_wait and goes back to `again`.
RwRelock(c) ==
  /\ HandleLive
  /\ cpc[c] = "rw_relock"
  /\ CanLock
  /\ mutex' = c
  /\ cpc' = [cpc EXCEPT ![c] = "rw_pop"]
  /\ snap' = [snap EXCEPT ![c] = [q |-> recvq, n |-> recvs]]
  /\ UNCHANGED <<call, cp, cret, got, rpc, waiters, heap, failed>>
  /\ UNCHANGED <<rvars, mvars, qvars, hist, net>>
  /\ UNCHANGED xvars

\* Mutant of RvPop: the head node is read but left linked in the queue.
RvPopPeek(c) ==
  /\ HandleLive
  /\ cpc[c] = "rv_pop"
  /\ cp' = [cp EXCEPT ![c] = edque_front(recvq)]
  /\ dequeued' = IF recvq = <<>> THEN dequeued ELSE Append(dequeued, Head(recvq))
  /\ cpc' = [cpc EXCEPT ![c] = IF recvq = <<>> THEN "rv_null" ELSE "rv_dec"]
  /\ UNCHANGED <<call, cret, got, snap, rpc, recvq, recvs, accepted, lost, mutex,
                 waiters, heap, failed>>
  /\ UNCHANGED <<rvars, mvars, net>>
  /\ UNCHANGED xvars

\* msgq_recv, lines 220-221: p = edque_pop_front(&msgq->recvq).
RvPop(c) ==
  /\ HandleLive
  /\ cpc[c] = "rv_pop"
  /\ cp' = [cp EXCEPT ![c] = edque_front(recvq)]
  /\ recvq' = edque_pop_front(recvq)
  /\ heap' = Unlinked(heap, edque_front(recvq))
  /\ dequeued' = IF recvq = <<>> THEN dequeued ELSE Append(dequeued, Head(recvq))
  /\ cpc' = [cpc EXCEPT ![c] = IF recvq = <<>> THEN "rv_null" ELSE "rv_dec"]
  /\ UNCHANGED <<call, cret, got, snap, rpc, recvs, accepted, lost, mutex,
                 waiters, failed>>
  /\ UNCHANGED <<rvars, mvars, net>>
  /\ UNCHANGED xvars

\* Mutant of RvNull: on an empty queue msgq_recv waits on recv_cond, as
\* msgq_recv_wait does.
RvNullWaits(c) ==
  /\ HandleLive
  /\ cpc[c] = "rv_null"
  /\ mutex' = Unlocked(c)
  /\ waiters' = waiters \cup {c}
  /\ cpc' = [cpc EXCEPT ![c] = "rw_parked"]
  /\ snap' = [snap EXCEPT ![c] = NoSnap]
  /\ UNCHANGED <<call, cp, cret, got, rpc, heap, failed>>
  /\ UNCHANGED <<rvars, mvars, qvars, hist, net>>
  /\ UNCHANGED xvars

\* msgq_recv, lines 222-223: the queue was empty: RECVQ_UNLOCK; return NULL.
RvNull(c) ==
  /\ HandleLive
  /\ cpc[c] = "rv_null"
  /\ mutex' = Unlocked(c)
  /\ cpc' = [cpc EXCEPT ![c] = "idle"]
  /\ call' = [call EXCEPT ![c] = "none"]
  /\ snap' = [snap EXCEPT ![c] = NoSnap]
  /\ UNCHANGED <<cp, cret, got, rpc, waiters, heap, failed>>
  /\ UNCHANGED <<rvars, mvars, qvars, hist, net>>
  /\ UNCHANGED xvars

\* Mutant of CDec: the pending count is not decremented.
CDecMissing(c) ==
  /\ HandleLive
  /\ cpc[c] \in {"rv_dec", "rw_dec"}
  /\ cpc' = [cpc EXCEPT ![c] = IF cpc[c] = "rv_dec" THEN "rv_unlock" ELSE "rw_unlock"]
  /\ UNCHANGED <<call, cp, cret, got, snap, rpc, recvq, recvs, mutex, waiters,
                 heap, failed>>
  /\ UNCHANGED <<rvars, mvars, hist, net>>
  /\ UNCHANGED xvars

\* msgq_recv line 225 and msgq_recv_wait line 205: msgq->recvs--.
CDec(c) ==
  /\ HandleLive
  /\ cpc[c] \in {"rv_dec", "rw_dec"}
  /\ recvs' = recvs - 1
  /\ cpc' = [cpc EXCEPT ![c] = IF cpc[c] = "rv_dec" THEN "rv_unlock" ELSE "rw_unlock"]
  /\ UNCHANGED <<call, cp, cret, got, snap, rpc, recvq, mutex, waiters,
                 heap, failed>>
  /\ UNCHANGED <<rvars, mvars, hist, net>>
  /\ UNCHANGED xvars

\* msgq_recv lines 226-229 and msgq_recv_wait lines 206-209: RECVQ_UNLOCK;
\* return the packet of the popped node.
CReturn(c) ==
  /\ HandleLive
  /\ cpc[c] \in {"rv_unlock", "rw_unlock"}
  /\ mutex' = Unlocked(c)
  /\ got' = [got EXCEPT ![c] = Append(@, heap[cp[c]].packet.container)]
  /\ cp' = [cp EXCEPT ![c] = NULL]
  /\ cpc' = [cpc EXCEPT ![c] = "idle"]
  /\ call' = [call EXCEPT ![c] = "none"]
  /\ snap' = [snap EXCEPT ![c] = NoSnap]
  /\ UNCHANGED <<cret, rpc, waiters, heap, failed>>
  /\ UNCHANGED <<rvars, mvars, qvars, hist, net>>
  /\ UNCHANGED xvars

\* Mutant of RwPop: the head node is read but left linked in the queue.
RwPopPeek(c) ==
  /\ HandleLive
  /\ cpc[c] = "rw_pop"
  /\ cp' = [cp EXCEPT ![c] = edque_front(recvq)]
  /\ dequeued' = IF recvq = <<>> THEN dequeued ELSE Append(dequeued, Head(recvq))
  /\ cpc' = [cpc EXCEPT ![c] = IF recvq = <<>> THEN "rw_wait" ELSE "rw_dec"]
  /\ UNCHANGED <<call, cret, got, snap, rpc, recvq, recvs, accepted, lost, mutex,
                 waiters, heap, failed>>
  /\ UNCHANGED <<rvars, mvars, net>>
  /\ UNCHANGED xvars

\* msgq_recv_wait, lines 198-199: p = edque_pop_front(&msgq->recvq).
RwPop(c) ==
  /\ HandleLive
  /\ cpc[c] = "rw_pop"
  /\ cp' = [cp EXCEPT ![c] = edque_front(recvq)]
  /\ recvq' = edque_pop_front(recvq)
  /\ heap' = Unlinked(heap, edque_front(recvq))
  /\ dequeued' = IF recvq = <<>> THEN dequeued ELSE Append(dequeued, Head(recvq))
  /\ cpc' = [cpc EXCEPT ![c] = IF recvq = <<>> THEN "rw_wait" ELSE "rw_dec"]
  /\ UNCHANGED <<call, cret, got, snap, rpc, recvs, accepted, lost, mutex,
                 waiters, failed>>
  /\ UNCHANGED <<rvars, mvars, net>>
  /\ UNCHANGED xvars

\* msgq_recv_wait, lines 200-201: pthread_cond_wait releases recv_mutex and
\* parks the caller on recv_cond, atomically.
RwWait(c) ==
  /\ HandleLive
  /\ cpc[c] = "rw_wait"
  /\ mutex' = Unlocked(c)
  /\ waiters' = waiters \cup {c}
  /\ cpc' = [cpc EXCEPT ![c] = "rw_parked"]
  /\ snap' = [snap EXCEPT ![c] = NoSnap]
  /\ UNCHANGED <<call, cp, cret, got, rpc, heap, failed>>
  /\ UNCHANGED <<rvars, mvars, qvars, hist, net>>
  /\ UNCHANGED xvars

\* pthread_cond_wait may return without a signal (spurious wake-up); the
\* caller then re-acquires recv_mutex and goes back to `again` (202-203).
RwSpurious(c) ==
  /\ HandleLive
  /\ cpc[c] = "rw_parked"
  /\ c \in waiters
  /\ waiters' = waiters \ {c}
  /\ cpc' = [cpc EXCEPT ![c] = "rw_relock"]
  /\ UNCHANGED <<call, cp, cret, got, snap, rpc, mutex, heap, failed>>
  /\ UNCHANGED <<rvars, mvars, qvars, hist, net>>
  /\ UNCHANGED xvars

\* msgq_message_count, line 155: ret = msgq->recvs.
McRead(c) ==
  /\ HandleLive
  /\ cpc[c] = "mc_read"
  /\ cret' = [cret EXCEPT ![c] = recvs]
  /\ cpc' = [cpc EXCEPT ![c] = "mc_unlock"]
  /\ UNCHANGED <<call, cp, got, snap, rpc, mutex, waiters, heap, failed>>
  /\ UNCHANGED <<rvars, mvars, qvars, hist, net>>
  /\ UNCHANGED xvars

\* msgq_message_count, lines 156-158: RECVQ_UNLOCK; return ret.
McReturn(c) ==
  /\ HandleLive
  /\ cpc[c] = "mc_unlock"
  /\ mutex' = Unlocked(c)
  /\ cret' = [cret EXCEPT ![c] = -1]
  /\ cpc' = [cpc EXCEPT ![c] = "idle"]
  /\ call' = [call EXCEPT ![c] = "none"]
  /\ snap' = [snap EXCEPT ![c] = NoSnap]
  /\ UNCHANGED <<cp, got, rpc, waiters, heap, failed>>
  /\ UNCHANGED <<rvars, mvars, qvars, hist, net>>
  /\ UNCHANGED xvars

\* The packets consumer c received and has not passed to msgq_pkt_delete.
held(c) == {got[c][i] : i \in {j \in 1..Len(got[c]) : heap[got[c][j]].pfree = 0}}

\* msgq_pkt_delete, lines 173-187, on a packet the consumer received: the
\* two assert()s on the node's link, then free(packet); free(np).
msgq_pkt_delete(c, n) ==
  /\ cpc[c] = "idle"
  /\ n \in held(c)
  /\ heap[n].packet.container # NULL
  /\ IF heap[heap[n].packet.container].linked
     THEN \* assert() fails: the process is aborted.
          /\ failed' = TRUE
          /\ cpc' = [o \in Consumers |-> "abort"]
          /\ rpc' = "abort"
          /\ mpc' = "abort"
          /\ fd' = "closed"
          /\ UNCHANGED heap
     ELSE /\ heap' = Freed(heap, heap[n].packet.container)
          /\ UNCHANGED <<failed, cpc, rpc, mpc, fd>>
  /\ UNCHANGED <<call, cp, cret, got, snap, cancelreq, dp, atclose, mutex, waiters>>
  /\ UNCHANGED <<rvars, qvars, hist, net>>
  /\ UNCHANGED xvars

\* ---------------------------------------------------------------- msgq_send
\* Where the application sends with B's handle: to the address of a peer
\* that is bound, or to an address nobody is bound to.
Dests == {"peer", "nobody"}

\* Mutant of msgq_send: the result of sendto() is not looked at.
msgq_send_unchecked(dest) ==
  /\ HandleLive
  /\ sres' = [dest |-> dest, ret |-> 0]
  /\ UNCHANGED <<open, mutex, waiters, rpc, heap, failed>>
  /\ UNCHANGED <<rvars, cvars, mvars, qvars, hist, net>>

\* msgq_send(B, dest, packet), lines 233-253: sendto() on msgq->fd, with no
\* lock taken; -1 when sendto fails (no listener at dest, or the descriptor
\* already closed by msgq_close), 0 otherwise. The datagram leaves for the
\* peer; nothing of B changes.
msgq_send(dest) ==
  /\ HandleLive
  /\ sres' = [dest |-> dest,
              ret |-> IF dest = "peer" /\ fd = "open" THEN 0 ELSE -1]
  /\ UNCHANGED <<open, mutex, waiters, rpc, heap, failed>>
  /\ UNCHANGED <<rvars, cvars, mvars, qvars, hist, net>>

\* ------------------------------------------------- msgq_open, step by step
\* The variables of the queue that msgq_open's steps before the creation of
\* the receiver thread leave alone.
qrest == <<cpc, call, cancelreq, waiters, recvq, recvs, pkbuf, rlen, rdg,
           raddr, np, heap, cp, cret, dp, sock, aaddr, sent, accepted,
           dequeued, got, snap, atclose, lost, failed, sres>>
qmain == <<mpc, rpc, mutex, fd>>

\* The frame of a step of msgq_open that only changes what msgq_open built.
OStep(o) == open' = o /\ UNCHANGED <<qrest, qmain>>

\* Lines 262-266: p = malloc(sizeof(*p)); on failure return NULL.
OHandle ==
  /\ open.pc = "o_handle"
  /\ \E ok \in BOOLEAN :
       OStep(IF ok THEN [open EXCEPT !.handle = "live", !.pc = "o_pkbuf"]
             ELSE [open EXCEPT !.ret = "NULL", !.pc = "o_done"])

\* Lines 268-272: p->pkbuf = malloc(MSGQ_MSG_MAX); on failure free(p).
OPkbuf ==
  /\ open.pc = "o_pkbuf"
  /\ \E ok \in BOOLEAN :
       OStep(IF ok THEN [open EXCEPT !.buf = "live", !.pc = "o_mutex"]
             ELSE [open EXCEPT !.handle = "freed", !.ret = "NULL",
                               !.pc = "o_done"])

\* Lines 274-285: pthread_mutex_init; on failure goto err_free.
OMutex ==
  /\ open.pc = "o_mutex"
  /\ \E ok \in BOOLEAN :
       OStep(IF ok THEN [open EXCEPT !.mtx = "init", !.pc = "o_cond"]
             ELSE [open EXCEPT !.pc = "o_err_free"])

\* Lines 287-290: pthread_cond_init; on failure goto err_cond.
OCond ==
  /\ open.pc = "o_cond"
  /\ \E ok \in BOOLEAN :
       OStep(IF ok THEN [open EXCEPT !.cond = "init", !.pc = "o_lock"]
             ELSE [open EXCEPT !.pc = "o_err_cond"])

\* Line 292: RECVQ_LOCK(p).
OLock ==
  /\ open.pc = "o_lock"
  /\ OStep([open EXCEPT !.mtx = "locked", !.pc = "o_socket"])

\* msgq_get_listener, lines 367-371: socket(); on failure -1, goto err.
OSocket ==
  /\ open.pc = "o_socket"
  /\ \E ok \in BOOLEAN :
       OStep(IF ok
             THEN [open EXCEPT !.sockfd = "open",
                     !.pc = IF open.mode = "anon" THEN "o_mkstemp" ELSE "o_stat"]
             ELSE [open EXCEPT !.pc = "o_err"])

\* Mutant of OStat: whatever exists at the address is unlinked.
OStatAnyEntry ==
  /\ open.pc = "o_stat"
  /\ OStep([open EXCEPT !.fs = "none", !.pc = "o_bind"])

\* msgq_get_listener, lines 379-386: stat(address); an entry that is not a
\* socket fails the open (the descriptor is closed at line 401); a socket is
\* unlinked, which may fail since the result of unlink is not looked at.
OStat ==
  /\ open.pc = "o_stat"
  /\ \/ /\ open.fs = "file"
        /\ OStep([open EXCEPT !.sockfd = "closed", !.pc = "o_err"])
     \/ /\ open.fs = "socket"
        /\ \E unlinked \in BOOLEAN :
             OStep([open EXCEPT !.fs = IF unlinked THEN "none" ELSE @,
                                !.pc = "o_bind"])
     \/ /\ open.fs = "none"
        /\ OStep([open EXCEPT !.pc = "o_bind"])

\* msgq_get_listener, lines 388-398: bind() makes the socket's entry at the
\* address; it fails if an entry exists, and may fail for other reasons. On
\* success the address and the descriptor are stored in the handle.
OBind ==
  /\ open.pc = "o_bind"
  /\ \E ok \in BOOLEAN :
       OStep(IF ok /\ open.fs = "none"
             THEN [open EXCEPT !.fs = "bound", !.bound = TRUE,
                               !.address = "path", !.hfd = TRUE,
                               !.pc = "o_thread"]
             ELSE [open EXCEPT !.sockfd = "closed", !.pc = "o_err"])

\* bind_anonymous, lines 415-421: mkstemp() makes a file at a fresh path.
OMkstemp ==
  /\ open.pc = "o_mkstemp"
  /\ \E ok \in BOOLEAN :
       OStep(IF ok
             THEN [open EXCEPT !.fs0 = "none", !.fs = "tmp", !.pc = "o_unlink"]
             ELSE [open EXCEPT !.sockfd = "closed", !.pc = "o_err"])

\* bind_anonymous, lines 422-428: close(tfd); unlink(tmpname), before bind.
OUnlink ==
  /\ open.pc = "o_unlink"
  /\ OStep([open EXCEPT !.fs = "none", !.pc = "o_abind"])

\* bind_anonymous, lines 429-438: bind(); EADDRINUSE (somebody made an entry
\* at the path meanwhile) goes round the loop for a fresh path, another
\* error fails the open, success stores the path as the queue's address.
OAnonBind ==
  /\ open.pc = "o_abind"
  /\ \E res \in {"ok", "inuse", "fail"} :
       /\ res = "inuse" => open.tries < MaxTries
       /\ OStep(CASE res = "ok" ->
                       [open EXCEPT !.fs = "bound", !.bound = TRUE,
                                    !.address = "path", !.hfd = TRUE,
                                    !.pc = "o_thread"]
                  [] res = "inuse" ->
                       [open EXCEPT !.tries = @ + 1, !.pc = "o_mkstemp"]
                  [] OTHER ->
                       [open EXCEPT !.sockfd = "closed", !.pc = "o_err"])

\* Lines 294-295, msgq_start_receiver 444-484: pthread_create(); on failure
\* goto err. On success the receiver thread exists and msgq_open still owns
\* recv_mutex.
OStartReceiver ==
  /\ open.pc = "o_thread"
  /\ \E ok \in BOOLEAN :
       IF ok
       THEN /\ open' = [open EXCEPT !.thread = TRUE, !.pc = "o_unlock"]
            /\ mpc' = "open_unlock"
            /\ rpc' = "r_lock0"
            /\ mutex' = Main
            /\ fd' = "open"
            /\ UNCHANGED qrest
       ELSE OStep([open EXCEPT !.pc = "o_err"])

\* Lines 301-302, err: pthread_cond_destroy.
OErr ==
  /\ open.pc = "o_err"
  /\ OStep([open EXCEPT !.cond = "destroyed", !.pc = "o_err_cond"])

\* Lines 303-307, err_cond: RECVQ_UNLOCK (EPERM if the mutex is not locked);
\* close(p->fd) if it was stored; pthread_mutex_destroy.
OErrCond ==
  /\ open.pc = "o_err_cond"
  /\ OStep([open EXCEPT !.mtx = "destroyed",
                        !.sockfd = IF open.hfd THEN "closed" ELSE @,
                        !.pc = "o_err_free"])

\* Lines 308-313, err_free: free(p->pkbuf); free(p); return NULL.
OErrFree ==
  /\ open.pc = "o_err_free"
  /\ OStep([open EXCEPT !.buf = "freed", !.handle = "freed", !.ret = "NULL",
                        !.pc = "o_done"])

\* ------------------------------------------------------ msgq_open / close
\* msgq_open, lines 297-299: RECVQ_UNLOCK; return p.
OpenUnlock ==
  /\ mpc = "open_unlock"
  /\ mutex' = Unlocked(Main)
  /\ mpc' = "app"
  /\ open' = [open EXCEPT !.pc = "o_done", !.mtx = "init", !.ret = "handle"]
  /\ UNCHANGED <<cancelreq, fd, dp, atclose, rpc, waiters, heap, failed>>
  /\ UNCHANGED <<rvars, cvars, qvars, hist, net, sres>>

\* msgq_close, line 324: pthread_cancel(msgq->receiver).
ClCancel ==
  /\ mpc = "app"
  /\ cancelreq' = TRUE
  /\ mpc' = "cl_join"
  /\ UNCHANGED <<fd, dp, atclose, rpc, mutex, waiters, heap, failed>>
  /\ UNCHANGED <<rvars, cvars, qvars, hist, net>>
  /\ UNCHANGED xvars

\* Mutant of ClJoin: msgq_close does not wait for the receiver.
ClJoinNoWait ==
  /\ mpc = "cl_join"
  /\ mpc' = "cl_lock"
  /\ UNCHANGED <<cancelreq, fd, dp, atclose, rpc, mutex, waiters, heap, failed>>
  /\ UNCHANGED <<rvars, cvars, qvars, hist, net>>
  /\ UNCHANGED xvars

\* Line 325: pthread_join returns once the receiver has terminated.
ClJoin ==
  /\ mpc = "cl_join"
  /\ rpc = "r_done"
  /\ mpc' = "cl_lock"
  /\ UNCHANGED <<cancelreq, fd, dp, atclose, rpc, mutex, waiters, heap, failed>>
  /\ UNCHANGED <<rvars, cvars, qvars, hist, net>>
  /\ UNCHANGED xvars

\* Line 327: RECVQ_LOCK.
ClLock ==
  /\ mpc = "cl_lock"
  /\ CanLock
  /\ mutex' = Main
  /\ atclose' = recvq
  /\ mpc' = "cl_fd"
  /\ UNCHANGED <<cancelreq, fd, dp, rpc, waiters, heap, failed>>
  /\ UNCHANGED <<rvars, cvars, qvars, hist, net>>
  /\ UNCHANGED xvars

\* Lines 329-332: close(msgq->fd); msgq->fd = -1.
ClFd ==
  /\ mpc = "cl_fd"
  /\ fd' = "closed"
  /\ mpc' = "cl_pkbuf"
  /\ UNCHANGED <<cancelreq, dp, atclose, rpc, mutex, waiters, heap, failed>>
  /\ UNCHANGED <<rvars, cvars, qvars, hist, net>>
  /\ UNCHANGED xvars

\* Lines 334-337: free(msgq->pkbuf); msgq->pkbuf = NULL.
ClPkbuf ==
  /\ mpc = "cl_pkbuf"
  /\ pkbuf' = [pkbuf EXCEPT !.live = FALSE]
  /\ mpc' = "cl_drain"
  /\ UNCHANGED <<rlen, rdg, raddr, np, rpc, mutex, waiters, heap, failed>>
  /\ UNCHANGED <<cvars, cancelreq, fd, dp, atclose, qvars, hist, net>>
  /\ UNCHANGED xvars

\* Lines 342-344: the drain loop pops the head node and decrements recvs,
\* or leaves the loop when the queue is empty.
ClDrainPop ==
  /\ mpc = "cl_drain"
  /\ dp' = edque_front(recvq)
  /\ recvq' = edque_pop_front(recvq)
  /\ heap' = Unlinked(heap, edque_front(recvq))
  /\ recvs' = IF recvq = <<>> THEN recvs ELSE recvs - 1
  /\ mpc' = IF recvq = <<>> THEN "cl_unlock" ELSE "cl_free"
  /\ UNCHANGED <<cancelreq, fd, atclose, rpc, mutex, waiters, failed>>
  /\ UNCHANGED <<rvars, cvars, hist, net>>
  /\ UNCHANGED xvars

\* Mutant of ClDrainFree: the packet is freed and the node is not.
ClDrainFreeLeak ==
  /\ mpc = "cl_free"
  /\ heap' = [heap EXCEPT ![dp].pfree = @ + 1]
  /\ dp' = NULL
  /\ mpc' = "cl_drain"
  /\ UNCHANGED <<cancelreq, fd, atclose, rpc, mutex, waiters, failed>>
  /\ UNCHANGED <<rvars, cvars, qvars, hist, net>>
  /\ UNCHANGED xvars

\* Lines 346-348: free(np->packet); free(np).
ClDrainFree ==
  /\ mpc = "cl_free"
  /\ heap' = Freed(heap, dp)
  /\ dp' = NULL
  /\ mpc' = "cl_drain"
  /\ UNCHANGED <<cancelreq, fd, atclose, rpc, mutex, waiters, failed>>
  /\ UNCHANGED <<rvars, cvars, qvars, hist, net>>
  /\ UNCHANGED xvars

\* Mutant of ClUnlock: msgq_close broadcasts recv_cond before it unlocks.
ClUnlockBroadcast ==
  /\ mpc = "cl_unlock"
  /\ mutex' = Unlocked(Main)
  /\ waiters' = {}
  /\ cpc' = [c \in Consumers |-> IF c \in waiters THEN "rw_relock" ELSE cpc[c]]
  /\ mpc' = "cl_destroy"
  /\ UNCHANGED <<cancelreq, fd, dp, atclose, rpc, heap, failed>>
  /\ UNCHANGED <<call, cp, cret, got, snap>>
  /\ UNCHANGED <<rvars, qvars, hist, net>>
  /\ UNCHANGED xvars

\* Line 351: RECVQ_UNLOCK.
ClUnlock ==
  /\ mpc = "cl_unlock"
  /\ mutex' = Unlocked(Main)
  /\ mpc' = "cl_destroy"
  /\ UNCHANGED <<cancelreq, fd, dp, atclose, rpc, waiters, heap, failed>>
  /\ UNCHANGED <<rvars, cvars, qvars, hist, net>>
  /\ UNCHANGED xvars

\* Lines 354-355: pthread_mutex_destroy(&msgq->recv_mutex); free(msgq).
\* Destroying a locked mutex fails with EBUSY and leaves it as it is.
ClDestroy ==
  /\ mpc = "cl_destroy"
  /\ mutex' = IF mutex = NoOwner THEN Destroyed ELSE mutex
  /\ mpc' = "closed"
  /\ UNCHANGED <<cancelreq, fd, dp, atclose, rpc, waiters, heap, failed>>
  /\ UNCHANGED <<rvars, cvars, qvars, hist, net>>
  /\ UNCHANGED xvars

\* ------------------------------------------------------------ specification
ReceiverStep ==
  \/ RLock0 \/ RUnlock0 \/ RTestCancel
  \/ RRecvCancel \/ RRecvData \/ RRecvTransient \/ RRecvFatal
  \/ RRetry \/ RBreak
  \/ RValidate \/ RCreate \/ RCreateFail
  \/ RLock \/ RPush \/ RInc \/ RDebugCancel \/ RSignal \/ RUnlock
  \/ msgq_receiver_cleaner

ConsumerStep(c) ==
  \/ CallRecv(c) \/ CallRecvWait(c) \/ CallCount(c)
  \/ RwRelock(c) \/ RvPop(c) \/ RvNull(c) \/ CDec(c) \/ CReturn(c)
  \/ RwPop(c) \/ RwWait(c) \/ RwSpurious(c)
  \/ McRead(c) \/ McReturn(c)
  \/ \E n \in held(c) : msgq_pkt_delete(c, n)

MainStep ==
  \/ OpenUnlock \/ ClCancel \/ ClJoin \/ ClLock \/ ClFd \/ ClPkbuf
  \/ ClDrainPop \/ ClDrainFree \/ ClUnlock \/ ClDestroy

\* The datagrams of the concurrency model: a packet sent with msgq_send, or
\* a raw datagram shorter than the header.
SenderStep ==
  \/ ASend(<<1>>)
  \/ \E d \in {r \in RawDatagrams : r.len < HeaderSize} : ARaw(d)

Next ==
  \/ ReceiverStep
  \/ \E c \in Consumers : ConsumerStep(c)
  \/ MainStep
  \/ SenderStep

Spec == Init /\ [][Next]_vars

\* The data path alone: queue A, bound to a short or to a longest-possible
\* address, sends packets with msgq_send and raw datagrams of every shape to
\* a running queue B, whose receiver meets no error and whose one consumer
\* receives with msgq_recv_wait and deletes what it received.
InitData == Opened /\ aaddr \in SenderAddrs

DataSenderStep ==
  \/ \E payload \in SendPayloads : ASend(payload)
  \/ \E d \in RawDatagrams : ARaw(d)

DataReceiverStep ==
  \/ RLock0 \/ RUnlock0 \/ RTestCancel \/ RRecvData \/ RValidate \/ RCreate
  \/ RLock \/ RPush \/ RInc \/ RSignal \/ RUnlock

DataConsumerStep(c) ==
  \/ CallRecvWait(c) \/ RwPop(c) \/ RwWait(c) \/ RwRelock(c)
  \/ CDec(c) \/ CReturn(c)
  \/ \E n \in held(c) : msgq_pkt_delete(c, n)

NextData ==
  \/ OpenUnlock
  \/ DataSenderStep
  \/ DataReceiverStep
  \/ DataConsumerStep("c1")

DataSpec == InitData /\ [][NextData]_vars

\* The queue with the application also sending from B's handle.
NextSend ==
  \/ Next
  \/ \E dest \in Dests : msgq_send(dest)

SendSpec == Init /\ [][NextSend]_vars

\* msgq_open from its first line: the queue does not exist yet.
Unopened ==
  /\ mpc = "opening"
  /\ rpc = "r_none"
  /\ cpc = [c \in Consumers |-> "idle"]
  /\ call = [c \in Consumers |-> "none"]
  /\ cancelreq = FALSE
  /\ mutex = NoOwner
  /\ waiters = {}
  /\ recvq = <<>>
  /\ recvs = 0
  /\ fd = "closed"
  /\ pkbuf = [size |-> 0, container |-> NULL, data |-> <<>>, live |-> TRUE]
  /\ rlen = 0
  /\ rdg = 0
  /\ raddr = <<>>
  /\ np = NULL
  /\ heap = <<>>
  /\ cp = [c \in Consumers |-> NULL]
  /\ cret = [c \in Consumers |-> -1]
  /\ dp = NULL
  /\ sock = <<>>
  /\ sent = <<>>
  /\ accepted = <<>>
  /\ dequeued = <<>>
  /\ got = [c \in Consumers |-> <<>>]
  /\ snap = [c \in Consumers |-> NoSnap]
  /\ atclose = <<>>
  /\ lost = {}
  /\ failed = FALSE
  /\ sres = NoSend
  /\ aaddr = ShortAddr

\* msgq_open(address) with nothing, a file or a socket at the address, or
\* msgq_open(NULL).
InitOpen ==
  /\ Unopened
  /\ \E mode \in {"named", "anon"}, fs0 \in {"none", "file", "socket"} :
       /\ mode = "anon" => fs0 = "none"
       /\ open = NewOpen(mode, fs0)

NextOpen ==
  \/ OHandle \/ OPkbuf \/ OMutex \/ OCond \/ OLock \/ OSocket
  \/ OStat \/ OBind \/ OMkstemp \/ OUnlink \/ OAnonBind
  \/ OStartReceiver \/ OpenUnlock
  \/ OErr \/ OErrCond \/ OErrFree

OpenSpec == InitOpen /\ [][NextOpen]_vars

\* ---------------------------------------------------------------- fairness
\* The steps a running receiver takes by itself. Not among them: a recvfrom
\* error, an allocation failure and a cancellation acted upon inside DEBUG(),
\* which the environment may or may not produce.
ReceiverProgress ==
  \/ RUnlock0 \/ RTestCancel \/ RRecvCancel \/ RRetry \/ RBreak
  \/ RValidate \/ RCreate
  \/ RPush \/ RInc \/ RSignal \/ RUnlock \/ msgq_receiver_cleaner

\* The steps of a consumer that holds recv_mutex inside an API function.
ConsumerProgress(c) ==
  \/ RvPop(c) \/ RvNull(c) \/ CDec(c) \/ CReturn(c)
  \/ RwPop(c) \/ RwWait(c) \/ McRead(c) \/ McReturn(c)

\* The steps of msgq_open and msgq_close once they are called.
MainProgress ==
  \/ OpenUnlock \/ ClJoin \/ ClFd \/ ClPkbuf \/ ClDrainPop \/ ClDrainFree
  \/ ClUnlock \/ ClDestroy

\* Every thread that can run does run (weak fairness); a thread blocked in
\* pthread_mutex_lock is eventually granted the mutex, and a datagram queued
\* on the socket is eventually returned by recvfrom, transient errors not
\* recurring for ever (strong fairness). Whether and when the application
\* calls an API function, msgq_close included, is left open.
Fairness ==
  /\ WF_vars(ReceiverProgress)
  /\ SF_vars(RLock0)
  /\ SF_vars(RLock)
  /\ SF_vars(RRecvData)
  /\ WF_vars(MainProgress)
  /\ SF_vars(ClLock)
  /\ \A c \in Consumers :
       /\ WF_vars(ConsumerProgress(c))
       /\ SF_vars(RwRelock(c))

LiveSpec == Init /\ [][Next]_vars /\ Fairness

\* ------------------------------------------------------------------ claims
Range(q) == {q[i] : i \in 1..Len(q)}
IsPrefix(p, q) == Len(p) <= Len(q) /\ p = SubSeq(q, 1, Len(p))
\* The nodes of q are in the order in which their datagrams arrived.
InArrivalOrder(q) ==
  \A i, j \in 1..Len(q) : i < j => heap[q[i]].dg < heap[q[j]].dg

\* C1: FIFO order. The receiver appends nodes in the order their datagrams
\* arrived; every dequeue takes the oldest node still enqueued, so the nodes
\* dequeued so far are a prefix of the nodes appended; each consumer is
\* returned its packets in arrival order, and a consumer that is the only one
\* dequeuing is returned exactly the first appended packets, in order.
C1_Fifo ==
  /\ InArrivalOrder(accepted)
  /\ IsPrefix(dequeued, accepted)
  /\ \A c \in Consumers :
       /\ InArrivalOrder(got[c])
       /\ (\A o \in Consumers \ {c} : got[o] = <<>> /\ cp[o] = NULL)
            => IsPrefix(got[c], accepted)

\* C1 witness: one consumer alone has been returned two packets.
C1_Witness ==
  \E c \in Consumers :
    /\ Len(got[c]) = 2
    /\ \A o \in Consumers \ {c} : got[o] = <<>>

\* C2: pending-count invariant. Whenever no thread holds recv_mutex, recvs is
\* the number of linked nodes; the value msgq_message_count reads is that
\* number, and it is the number of appends when nothing has been dequeued or
\* drained yet.
C2_PendingCount ==
  /\ mutex \in {NoOwner, Destroyed} => recvs = Len(recvq)
  /\ \A c \in Consumers :
       cpc[c] = "mc_unlock" =>
         /\ cret[c] = Len(recvq)
         /\ (dequeued = <<>> /\ mpc \in {"app", "cl_join", "cl_lock"})
              => cret[c] = Len(accepted)

\* C2 witness: msgq_message_count is about to return 2 after two appends and
\* no dequeue.
C2_Witness ==
  \E c \in Consumers :
    cpc[c] = "mc_unlock" /\ cret[c] = 2 /\ dequeued = <<>> /\ Len(accepted) = 2

\* C3: msgq_recv_wait goes on to return only with a node it popped itself
\* from the head of a non-empty queue while holding recv_mutex, at a moment
\* when the pending count was at least 1; it parks only after finding the
\* queue empty, holding nothing.
C3_RecvWaitPopped ==
  \A c \in Consumers :
    /\ cpc[c] \in {"rw_dec", "rw_unlock"} =>
         /\ mutex = c
         /\ cp[c] # NULL
         /\ snap[c].q # <<>>
         /\ cp[c] = Head(snap[c].q)
         /\ snap[c].n >= 1
         /\ recvq = Tail(snap[c].q)
    /\ cpc[c] = "rw_wait" => mutex = c /\ recvq = <<>> /\ cp[c] = NULL
    /\ cpc[c] \in {"rw_parked", "rw_relock"} => cp[c] = NULL
    /\ Range(got[c]) \subseteq Range(dequeued)

\* C3 witness: a msgq_recv_wait call is about to return a packet although the
\* other consumer has taken a message too.
C3_Witness ==
  \E c \in Consumers :
    /\ cpc[c] = "rw_unlock"
    /\ \E o \in Consumers \ {c} : got[o] # <<>>

\* The receiver thread is Running: it has neither been cancelled nor left
\* its loop.
Running == rpc \notin {"r_cleanup", "r_done"}
\* Datagram k is at least header-sized.
ValidDgram(k) == k <= Len(sent) /\ sent[k].len >= HeaderSize
\* A node for datagram k has been appended to the queue.
Appended(k) == \E n \in Range(accepted) : heap[n].dg = k
\* Consumer c is blocked in msgq_recv_wait: parked, or woken and on its way
\* back to the queue.
Blocked(c) == cpc[c] \in {"rw_wait", "rw_parked", "rw_relock", "rw_pop"}

\* C4 as stated: every valid datagram queued on the socket of a Running
\* receiver is eventually appended, and whenever the queue is non-empty a
\* consumer blocked in msgq_recv_wait eventually dequeues.
C4_Original ==
  /\ \A k \in 1..MaxDgrams :
       (k \in Range(sock) /\ ValidDgram(k) /\ Running) ~> Appended(k)
  /\ \A k \in 0..MaxDgrams :
       ((\E c \in Consumers : Blocked(c)) /\ recvq # <<>> /\ Len(dequeued) = k)
         ~> (Len(dequeued) > k)

\* C4, amended: every valid datagram queued on the socket of a Running
\* receiver is eventually appended, unless the allocation of its node fails
\* or the receiver terminates first (fatal recvfrom error, cancellation);
\* and whenever the queue is non-empty while a consumer is blocked in
\* msgq_recv_wait, a packet is eventually dequeued, unless msgq_close is
\* called.
C4_Delivery ==
  /\ \A k \in 1..MaxDgrams :
       (k \in Range(sock) /\ ValidDgram(k) /\ Running)
         ~> (Appended(k) \/ k \in lost \/ ~Running)
  /\ \A k \in 0..MaxDgrams :
       ((\E c \in Consumers : Blocked(c)) /\ recvq # <<>> /\ Len(dequeued) = k)
         ~> (Len(dequeued) > k \/ mpc # "app")

\* C4 witness: with the handle open and the receiver Running, a consumer that
\* was blocked in msgq_recv_wait is about to return the packet of a datagram.
C4_Witness ==
  /\ mpc = "app"
  /\ Running
  /\ \E c \in Consumers :
       cpc[c] = "rw_unlock" /\ cp[c] # NULL /\ Appended(heap[cp[c]].dg)

\* C5: once msgq_close has been called with no consumer parked in
\* msgq_recv_wait it runs to its end, and the receiver never terminates
\* owning recv_mutex.
C5_CloseTerminates ==
  /\ (mpc = "cl_join" /\ \A c \in Consumers : ~Blocked(c)) ~> (mpc = "closed")
  /\ [](rpc = "r_done" => mutex # Receiver)

\* C5 witness: msgq_close waits in pthread_join, no consumer is parked, and
\* the receiver was cancelled inside its critical section: it still owns
\* recv_mutex when its cleanup handler starts.
C5_Witness ==
  /\ mpc = "cl_join"
  /\ \A c \in Consumers : ~Blocked(c)
  /\ rpc = "r_cleanup"
  /\ mutex = Receiver

Nodes == 1..Len(heap)
\* Node n has been returned to some consumer.
Returned(n) == \E c \in Consumers : n \in Range(got[c])
\* msgq_close has left its drain loop.
DrainDone == mpc \in {"cl_unlock", "cl_destroy", "closed"}

\* C6: when msgq_close has left its drain loop, and so before it destroys
\* the mutex and frees the handle, the queue is empty, recvs is 0, and each
\* of the K nodes that were enqueued when it took the lock has been freed
\* once with its packet; no node is ever freed twice, and msgq_close frees no
\* other node: a freed node outside those K had been returned to a consumer.
C6_CloseFreesQueued ==
  /\ DrainDone =>
       /\ recvq = <<>>
       /\ recvs = 0
       /\ \A n \in Range(atclose) : heap[n].nfree = 1 /\ heap[n].pfree = 1
  /\ \A n \in Nodes :
       /\ heap[n].nfree <= 1
       /\ heap[n].pfree <= 1
       /\ (heap[n].nfree = 1 /\ n \notin Range(atclose)) => Returned(n)
       /\ n \in Range(atclose) => ~Returned(n)

\* C6 witness: msgq_close has finished on a queue that held two nodes.
C6_Witness == mpc = "closed" /\ Len(atclose) = 2

\* Node n is alive: created and not freed.
Alive(n) == heap[n].nfree = 0
\* Node n is linked in the queue.
InQueue(n) == n \in Range(recvq)
\* The consumers that hold node n: they popped it, or were returned its
\* packet and have not deleted it.
Holders(n) == {c \in Consumers : cp[c] = n \/ n \in held(c)}
\* Node n has been built by the receiver and is not appended yet.
ReceiverPrivate(n) == np = n /\ rpc \in {"r_lock", "r_push"}
\* Node n has been popped by msgq_close's drain loop and is about to be freed.
DrainPrivate(n) == dp = n /\ mpc = "cl_free"
B2N(b) == IF b THEN 1 ELSE 0

\* C7 as stated: every alive node is either linked in the queue or held by
\* exactly one consumer, never both and never neither.
C7_Original ==
  \A n \in Nodes :
    Alive(n) => B2N(InQueue(n)) + Cardinality(Holders(n)) = 1

\* C7, amended: every alive node is in exactly one of four places: private
\* to the receiver between msgq_node_create and edque_push_back, linked in
\* the queue (once), held by exactly one consumer, or popped by msgq_close's
\* drain loop and about to be freed. A freed node is in none of them.
C7_Ownership ==
  /\ \A n \in Nodes :
       B2N(ReceiverPrivate(n)) + B2N(InQueue(n)) + Cardinality(Holders(n))
         + B2N(DrainPrivate(n)) = B2N(Alive(n))
  /\ \A i, j \in 1..Len(recvq) : recvq[i] = recvq[j] => i = j

\* C7 witness: one node is held by a consumer while another, just built, is
\* still private to the receiver, which waits for recv_mutex.
C7_Witness ==
  /\ rpc = "r_lock"
  /\ Alive(np) /\ ~InQueue(np)
  /\ \E n \in Nodes \ {np} : Alive(n) /\ Holders(n) # {}

\* C8: msgq_pkt_delete's assert()s never fail on a packet obtained from
\* msgq_recv or msgq_recv_wait: such a packet's node is detached and not in
\* the queue; a freed node is not reachable from the queue; and a step that
\* frees a node outside msgq_close leaves recvq and recvs as they are.
C8_DeleteDetached ==
  /\ [](~failed)
  /\ [](\A c \in Consumers : \A n \in held(c) :
          ~heap[n].linked /\ ~InQueue(n) /\ heap[n].packet.container = n)
  /\ [](\A n \in Nodes : ~Alive(n) => ~InQueue(n) /\ ~heap[n].linked)
  /\ [][(mpc # "cl_free" /\ \E n \in Nodes : heap'[n].nfree # heap[n].nfree)
          => (recvq' = recvq /\ recvs' = recvs)]_vars

\* C8 witness: a consumer has deleted a packet it received while another
\* node is linked in the queue.
C8_Witness ==
  \E n \in Nodes : ~Alive(n) /\ Returned(n) /\ recvq # <<>>

\* C9: a thread inside msgq_recv holds recv_mutex and is never parked on
\* recv_cond. If it found the queue empty, recvq and recvs are as it found
\* them and it holds no node (it returns NULL); otherwise the queue is the
\* one it found without its head, it holds that head node, whose packet it
\* returns, and before it unlocks recvs is one less than it found it.
C9_Recv ==
  \A c \in Consumers :
    call[c] = "msgq_recv" =>
      /\ c \notin waiters
      /\ mutex = c
      /\ cpc[c] \in {"rv_pop", "rv_null", "rv_dec", "rv_unlock"}
      /\ cpc[c] = "rv_null" =>
           /\ snap[c].q = <<>> /\ cp[c] = NULL
           /\ recvq = snap[c].q /\ recvs = snap[c].n
      /\ cpc[c] \in {"rv_dec", "rv_unlock"} =>
           /\ snap[c].q # <<>> /\ cp[c] = Head(snap[c].q)
           /\ recvq = Tail(snap[c].q)
           /\ heap[cp[c]].packet.container = cp[c]
           /\ recvs = IF cpc[c] = "rv_dec" THEN snap[c].n ELSE snap[c].n - 1

\* C9 witness: msgq_recv is about to return the head of a queue of two.
C9_Witness ==
  \E c \in Consumers : cpc[c] = "rv_unlock" /\ Len(snap[c].q) = 2

\* Datagram d is what msgq_send transmits for a packet built by a caller.
SentByMsgqSend(d) ==
  d.len = HeaderSize + d.size /\ Len(d.data) = d.size /\ d.container = NULL
\* The first `size` payload bytes of the packet of node n.
Payload(n) == SubSeq(heap[n].packet.data, 1, heap[n].packet.size)

\* C10 as stated: a packet with declared size s and s payload bytes, sent
\* with msgq_send from queue A to running queue B, is returned by B's
\* msgq_recv_wait with size s, the same s payload bytes, and a
\* msgq_pkt_sender equal to A's bound address.
C10_RoundTrip ==
  \A c \in Consumers : \A n \in held(c) :
    SentByMsgqSend(sent[heap[n].dg]) =>
      /\ heap[n].packet.size = sent[heap[n].dg].size
      /\ Payload(n) = sent[heap[n].dg].data
      /\ msgq_pkt_sender(n) = aaddr

\* The part of C10 the code does keep: size and payload bytes round-trip,
\* and the sender is A's bound address when that address is shorter than
\* UNIX_PATH_MAX - 1 characters.
C10_PayloadRoundTrip ==
  \A c \in Consumers : \A n \in held(c) :
    SentByMsgqSend(sent[heap[n].dg]) =>
      /\ heap[n].packet.size = sent[heap[n].dg].size
      /\ Payload(n) = sent[heap[n].dg].data
      /\ Len(aaddr) < UNIX_PATH_MAX - 1 => msgq_pkt_sender(n) = aaddr

\* C10 witness: msgq_recv_wait has returned a packet of two payload bytes
\* that was sent with msgq_send.
C10_Witness ==
  \E n \in held("c1") :
    SentByMsgqSend(sent[heap[n].dg]) /\ heap[n].packet.size = 2

\* msgq_open has returned NULL.
OpenFailed == open.pc = "o_done" /\ open.ret = "NULL"
\* msgq_open has returned the handle.
OpenSucceeded == open.pc = "o_done" /\ open.ret = "handle"

\* C13 as stated: when msgq_open fails at any step it returns NULL with
\* everything rolled back: no receiver thread, the descriptor closed,
\* recv_mutex unlocked and destroyed, buffer and handle freed, and the
\* filesystem entry at the address as it was before the call.
C13_Rollback ==
  OpenFailed =>
    /\ ~open.thread
    /\ open.sockfd # "open"
    /\ open.mtx \in {"none", "destroyed"}
    /\ open.buf # "live"
    /\ open.handle # "live"
    /\ open.fs = open.fs0

\* The part of C13 the code keeps: everything but the filesystem entry.
C13_ResourcesRolledBack ==
  OpenFailed =>
    /\ ~open.thread
    /\ open.sockfd # "open"
    /\ open.mtx \in {"none", "destroyed"}
    /\ open.buf # "live"
    /\ open.handle # "live"

\* C14: msgq_open(address) with an entry at address that is not a socket
\* never removes the entry, never binds and does not return a handle; with a
\* socket at address, a msgq_open that returns a handle has removed the entry
\* and bound the new queue's socket at that path.
C14_ExistingEntry ==
  /\ (open.mode = "named" /\ open.fs0 = "file") =>
       /\ open.fs = "file"
       /\ ~open.bound
       /\ open.ret # "handle"
       /\ open.pc \notin {"o_bind", "o_thread", "o_unlock"}
  /\ (open.mode = "named" /\ open.fs0 = "socket" /\ open.bound) =>
       /\ open.fs = "bound"
       /\ open.address = "path"

\* C14 witness: msgq_open has returned a handle bound at an address where a
\* socket entry existed.
C14_Witness ==
  OpenSucceeded /\ open.mode = "named" /\ open.fs0 = "socket"

\* C15 as stated: after a successful msgq_open(NULL) the generated path is
\* the queue's address, the socket is bound to it and no filesystem entry
\* exists at that path.
C15_Anonymous ==
  (OpenSucceeded /\ open.mode = "anon") =>
    /\ open.address = "path"
    /\ open.bound
    /\ open.fs = "none"

\* What the code does for C15: the entry of the bound socket exists at the
\* generated path after a successful msgq_open(NULL), also after collisions.
C15_AnonymousEntryStays ==
  (OpenSucceeded /\ open.mode = "anon") =>
    /\ open.address = "path"
    /\ open.bound
    /\ open.fs = "bound"

\* C12: a msgq_send on B's handle, successful or failing, can be made
\* whoever owns recv_mutex and leaves the mutex, recvq, recvs, the nodes, the
\* waiters and B's socket as they are; a send to an address with no listener
\* returns -1.
C12_SendFrame ==
  /\ [](sres.dest = "nobody" => sres.ret = -1)
  /\ [](HandleLive => \A dest \in Dests : ENABLED msgq_send(dest))
  /\ [][sres' # sres =>
          /\ mutex' = mutex /\ waiters' = waiters
          /\ recvq' = recvq /\ recvs' = recvs /\ heap' = heap
          /\ sock' = sock /\ sent' = sent]_vars

\* C12 witness: a send to an address without listener has returned -1 while
\* the receiver owns recv_mutex and a node is queued.
C12_Witness ==
  sres = [dest |-> "nobody", ret |-> -1] /\ mutex = Receiver /\ recvq # <<>>

\* C11: a datagram shorter than the packet header is discarded: the step of
\* the receiver that rejects it creates no node, leaves recvq, recvs, the
\* waiters and recv_mutex as they are and takes the receiver back to the top
\* of its loop; no node ever exists for such a datagram.
C11_ShortDiscarded ==
  /\ [](\A n \in Nodes : sent[heap[n].dg].len >= HeaderSize)
  /\ [][(rpc = "r_validate" /\ rlen < HeaderSize /\ rpc' # rpc) =>
          /\ rpc' = "r_testcancel"
          /\ heap' = heap /\ np' = np
          /\ recvq' = recvq /\ recvs' = recvs
          /\ waiters' = waiters /\ cpc' = cpc /\ mutex' = mutex]_vars

\* C11 witness: the first datagram was shorter than the header and the
\* receiver has appended the node of the second.
C11_Witness ==
  /\ Len(sent) = 2 /\ sent[1].len < HeaderSize
  /\ \E n \in Range(recvq) : heap[n].dg = 2

\* The receiver has left its loop: cancelled, or after a recvfrom error.
Terminated == rpc \in {"r_cleanup", "r_done"}
\* msgq_close has been called.
CloseCalled == mpc \notin {"open_unlock", "app"}

\* C16: once the receiver has left its loop it stays terminated; from then
\* on recvs never increases and no node is created or appended, and the
\* nodes already enqueued leave the queue only from its head, each going to
\* a consumer unless msgq_close has been called.
C16_NoRestart ==
  /\ [][Terminated =>
          /\ Terminated'
          /\ recvs' <= recvs
          /\ accepted' = accepted
          /\ Len(heap') = Len(heap)]_vars
  /\ [][(Terminated /\ recvq' # recvq) =>
          /\ recvq # <<>> /\ recvq' = Tail(recvq)
          /\ ~CloseCalled => dequeued' = Append(dequeued, Head(recvq))]_vars

\* C16 witness: after a recvfrom error, with no cancellation requested, a
\* consumer is being returned the head node while another node is enqueued.
C16_Witness ==
  /\ rpc = "r_done" /\ ~cancelreq
  /\ recvq # <<>>
  /\ \E c \in Consumers : cpc[c] \in {"rv_unlock", "rw_unlock"}

\* C17 as stated: the receiver never starts its cancellation clean-up at a
\* point where it owns recv_mutex.
C17_CancelPoints == rpc = "r_cleanup" => mutex # Receiver

\* C18: the receiver does not own recv_mutex while in recvfrom, and every
\* step that changes recvq or recvs is a step of the thread that owns
\* recv_mutex.
C18_MutualExclusion ==
  /\ [](rpc = "r_recvfrom" => mutex # Receiver)
  /\ [][(recvq' # recvq \/ recvs' # recvs) =>
          \/ rpc' # rpc /\ mutex = Receiver
          \/ mpc' # mpc /\ mutex = Main
          \/ \E c \in Consumers : cpc'[c] # cpc[c] /\ mutex = c]_vars

\* C18 witness: the receiver's cleanup handler is about to unlock
\* recv_mutex while a consumer that owns it is about to pop.
C18_Witness ==
  /\ rpc = "r_cleanup"
  /\ \E c \in Consumers : mutex = c /\ cpc[c] \in {"rv_pop", "rw_pop"}

\* C19: before msgq_close is called, whenever recv_mutex is free, the queue
\* is non-empty and a consumer is parked on recv_cond, some consumer has been
\* woken and is on its way to the queue; a consumer about to park owns
\* recv_mutex and has found the queue empty.
C19_NoLostWakeup ==
  /\ (~CloseCalled /\ mutex = NoOwner /\ recvq # <<>> /\ waiters # {}) =>
       \E c \in Consumers : cpc[c] = "rw_relock"
  /\ \A c \in Consumers : cpc[c] = "rw_wait" => (recvq = <<>> /\ mutex = c)
  /\ \A c \in waiters : cpc[c] = "rw_parked"

\* C19 witness: recv_mutex is free and a node is queued while one consumer
\* is parked and the other has been woken.
C19_Witness ==
  /\ ~CloseCalled /\ mutex = NoOwner /\ recvq # <<>> /\ waiters # {}
  /\ \E c \in Consumers : cpc[c] = "rw_relock"

\* msgq_close is past pthread_join.
Joined ==
  mpc \in {"cl_lock", "cl_fd", "cl_pkbuf", "cl_drain", "cl_free", "cl_unlock",
           "cl_destroy", "closed"}

\* C20: when msgq_close is past pthread_join the receiver has terminated;
\* the descriptor is closed, the buffer freed and a queued node freed only
\* after that.
C20_JoinFirst ==
  /\ Joined => rpc = "r_done"
  /\ (~failed /\ (fd = "closed" \/ ~pkbuf.live)) => (Joined /\ rpc = "r_done")
  /\ \A n \in Nodes :
       (~Alive(n) /\ ~Returned(n)) => (Joined /\ rpc = "r_done")

\* C20 witness: msgq_close has joined a receiver that was cancelled and is
\* about to close the descriptor with a node still queued.
C20_Witness == mpc = "cl_fd" /\ fd = "open" /\ recvq # <<>>

\* The payload bytes datagram k carried behind its header.
ReceivedBytes(k) == sent[k].len - HeaderSize
\* The receiver's loop has finished with datagram k.
Processed(k) ==
  \/ rdg > k
  \/ rdg = k /\ rpc \in {"r_inc", "r_signal", "r_unlock", "r_testcancel",
                         "r_recvfrom"}
\* The declared size of datagram k is not the number of payload bytes it
\* carried.
Mismatch(k) == sent[k].size # ReceivedBytes(k)

\* C21: a datagram at least as long as the header is accepted by
\* validate_packet whatever size d its header declares, and the size recorded
\* in the buffer and then in the node is min(d, len - header size).
C21_LenientTruncation ==
  /\ [](\A n \in Nodes :
          /\ ReceivedBytes(heap[n].dg) >= 0
          /\ heap[n].packet.size =
               Min(sent[heap[n].dg].size, ReceivedBytes(heap[n].dg)))
  /\ [][(rpc = "r_validate" /\ rlen >= HeaderSize /\ rpc' # rpc) =>
          /\ rpc' = "r_create"
          /\ pkbuf'.size = Min(pkbuf.size, rlen - HeaderSize)]_vars

\* C21 witness: the node of a datagram that declared more than it carried
\* has been appended.
C21_Witness ==
  \E n \in Range(accepted) :
    sent[heap[n].dg].size > ReceivedBytes(heap[n].dg)

\* C22 as stated: no datagram whose declared size differs from the payload
\* bytes received is ever appended to the queue.
C22_Original ==
  \A n \in Range(accepted) : ~Mismatch(heap[n].dg)

\* C22, amended: a datagram at least as long as the header whose declared
\* size differs from the payload bytes received is not dropped: once the
\* receiver's loop has finished with it its node has been appended, and the
\* append is followed by recvs++ like any other.
C22_MismatchCounted ==
  /\ [](\A k \in 1..Len(sent) :
          (ReceivedBytes(k) >= 0 /\ Mismatch(k) /\ Processed(k)) => Appended(k))
  /\ [][(rpc = "r_inc" /\ rpc' # rpc /\ Mismatch(rdg)) =>
          recvs' = recvs + 1]_vars

\* C22 witness: the node of a datagram that declared less than it carried
\* has been appended and counted.
C22_Witness ==
  /\ rpc = "r_signal"
  /\ sent[rdg].size < ReceivedBytes(rdg)
  /\ Appended(rdg)

\* What a step of the receiver outside its critical section leaves alone.
QueueUntouched ==
  /\ recvq' = recvq /\ recvs' = recvs /\ heap' = heap
  /\ waiters' = waiters /\ cpc' = cpc /\ mutex' = mutex /\ sock' = sock

\* C23: a recvfrom error changes nothing of the queue; after a transient one
\* the receiver goes to the cancel check at the top of its loop and, if no
\* cancellation is pending, to recvfrom again; after any other it leaves the
\* loop for its cleanup handler and terminates.
C23_RecvErrors ==
  /\ [][(rpc = "r_recvfrom" /\ rpc' \in {"r_eintr", "r_efatal"}) =>
          QueueUntouched]_vars
  /\ [][(rpc = "r_eintr" /\ rpc' # rpc) =>
          (rpc' = "r_testcancel" /\ QueueUntouched)]_vars
  /\ [][(rpc = "r_testcancel" /\ rpc' # rpc /\ ~cancelreq) =>
          rpc' = "r_recvfrom"]_vars
  /\ [][(rpc = "r_efatal" /\ rpc' # rpc) =>
          (rpc' = "r_cleanup" /\ QueueUntouched)]_vars
  /\ [][(rpc = "r_cleanup" /\ rpc' # rpc) => rpc' = "r_done"]_vars

\* C23 witness: recvfrom has failed with a transient error while a node is
\* queued and another datagram waits on the socket.
C23_Witness == rpc = "r_eintr" /\ recvq # <<>> /\ sock # <<>>

\* The receiver has just built node np from the validated packet in pkbuf.
JustCopied == rpc \in {"r_lock", "r_push"}

C24_CopyFidelity ==
  JustCopied =>
    LET copy == heap[np].packet
        s == pkbuf.size
    IN /\ copy.size = s
       /\ SubSeq(copy.data, 1, s) = SubSeq(pkbuf.data, 1, s)
       /\ Len(copy.data) \in {s, s + 1}
       /\ Len(copy.data) = s + 1 => copy.data[s + 1] = 0
       /\ s > 0 => (Len(copy.data) = s + 1 <=> pkbuf.data[s] # 0)

\* C25: the packet and the sender of a node never change once the node
\* exists, whatever the receiver reads into pkbuf afterwards; and pkbuf is
\* changed only by steps of the receiver, until msgq_close has joined it.
C25_BufferIsolation ==
  /\ [][\A n \in Nodes :
          heap'[n].packet = heap[n].packet /\ heap'[n].sender = heap[n].sender]_vars
  /\ [][pkbuf' # pkbuf => (rpc' # rpc \/ Joined)]_vars

\* C25 witness: a node is queued while the buffer holds a later datagram
\* with other content.
C25_Witness ==
  \E n \in Range(recvq) :
    /\ heap[n].dg < rdg
    /\ rpc = "r_validate"
    /\ heap[n].packet.data # pkbuf.data

\* C26: no assert() fails; node and packet are freed at most once; no node
\* is both dequeued by a consumer and drained by msgq_close; a freed node was
\* returned to a consumer or drained; and msgq_pkt_delete can be called on a
\* packet a consumer holds when msgq_close has freed the handle.
C26_ExactlyOnce ==
  /\ [](~failed)
  /\ [](\A n \in Nodes :
          /\ heap[n].nfree <= 1 /\ heap[n].pfree <= 1
          /\ ~(n \in Range(dequeued) /\ n \in Range(atclose))
          /\ ~Alive(n) => (Returned(n) \/ n \in Range(atclose)))
  /\ [](\A c \in Consumers : \A n \in held(c) :
          (mpc = "closed" /\ cpc[c] = "idle") => ENABLED msgq_pkt_delete(c, n))

\* C26 witness: msgq_close has drained a node and freed the handle while a
\* consumer still holds a packet it received.
C26_Witness ==
  /\ mpc = "closed" /\ atclose # <<>>
  /\ \E c \in Consumers : cpc[c] = "idle" /\ held(c) # {}

\* Every return of a packet by msgq_recv or msgq_recv_wait: who, and which.
ReturnEvents == UNION {{<<c, i>> : i \in 1..Len(got[c])} : c \in Consumers}
\* The nodes whose packets have been returned.
ReturnedNodes == UNION {Range(got[c]) : c \in Consumers}

\* C27: no node is returned by more than one call, every returned node had
\* been appended, and the number of packets returned never exceeds the
\* number of nodes appended.
C27_AtMostOnce ==
  /\ Cardinality(ReturnEvents) = Cardinality(ReturnedNodes)
  /\ ReturnedNodes \subseteq Range(accepted)
  /\ Cardinality(ReturnEvents) <= Len(accepted)
  /\ \A i, j \in 1..Len(dequeued) : dequeued[i] = dequeued[j] => i = j

\* C27 witness: each of the two consumers has been returned a packet.
C27_Witness == \A c \in Consumers : got[c] # <<>>

\* C28: when the node of a validated datagram cannot be allocated the
\* receiver goes back to the top of its loop; that step leaves the heap, the
\* queue, recvs, the waiters and the mutex as they are, and no node exists
\* for a datagram dropped this way.
C28_AllocFailure ==
  /\ [][(rpc = "r_create" /\ rpc' # rpc) =>
          rpc' \in {"r_lock", "r_testcancel"}]_vars
  /\ [][(rpc = "r_create" /\ rpc' = "r_testcancel") =>
          (QueueUntouched /\ accepted' = accepted)]_vars
  /\ [](\A k \in lost : \A n \in Nodes : heap[n].dg # k)

\* C28 witness: the first datagram was dropped for lack of memory and the
\* node of the second is queued.
C28_Witness == 1 \in lost /\ \E n \in Range(recvq) : heap[n].dg = 2

\* C29 as stated: a consumer parked in msgq_recv_wait once msgq_close has
\* been called stays parked.
C29_Original ==
  [][\A c \in Consumers :
       (CloseCalled /\ cpc[c] = "rw_parked") => cpc'[c] = "rw_parked"]_vars

\* C29, amended: no step of msgq_close wakes a parked consumer; a parked
\* consumer is woken only by the receiver's pthread_cond_signal or
\* spuriously.
C29_CloseNeverWakes ==
  /\ [][mpc' # mpc =>
          /\ waiters' = waiters
          /\ \A c \in Consumers : cpc[c] = "rw_parked" => cpc'[c] = "rw_parked"]_vars
  /\ [][\A c \in Consumers :
          (cpc[c] = "rw_parked" /\ cpc'[c] # "rw_parked") =>
            /\ cpc'[c] = "rw_relock"
            /\ mpc' = mpc
            /\ (rpc = "r_signal" /\ rpc' = "r_unlock") \/ rpc' = rpc]_vars

\* C29 witness: msgq_close has destroyed the mutex and freed the handle and
\* a consumer is still parked.
C29_Witness == mpc = "closed" /\ mutex = Destroyed /\ waiters # {}

\* C30 as stated: when msgq_copy_packet is called on the validated packet,
\* the index size - 1 of its terminator test is not negative.
C30_IndexInRange == rpc = "r_create" => pkbuf.size - 1 >= 0

====
